---------------------------- MODULE Spec2Model ----------------------------
(***************************************************************************)
(* A model of src/worker.js, the cross-channel reply blocker: the          *)
(* classifier (detectCrossChannelReply), the API client (makeApiRequest),  *)
(* the rate limiter (checkRateLimit) and the message handling path.        *)
(*                                                                         *)
(* Conventions.  A JavaScript value that may be null/undefined is a record *)
(* whose field `kind` names what it is, so that values of different shapes *)
(* can be compared.  An absent numeric id is 0 (falsy in JavaScript, like  *)
(* undefined); the ids of real chats are non-zero.                         *)
(***************************************************************************)
EXTENDS Integers, Sequences, FiniteSets, TLC

VARIABLES
    \* ---- classifier, applied to one message (SpecClassify) ----
    cMsg,        \* the message handed to detectCrossChannelReply
    cInfo,       \* what getChatInfo returned for the message's chat
    cResult,     \* the classification result, or NoResult before the call
    \* ---- one call of makeApiRequest (SpecApi) ----
    apiPc,       \* "idle", "fetch" (request in flight), "backoff", "done", "raised"
    apiRetry,    \* retryCount of the current attempt
    apiSent,     \* requests sent by this call so far
    apiLast,     \* the outcome of the last attempt
    apiDelay,    \* the backoff delay being awaited, in ms
    apiRet,      \* the value returned to the caller
    \* ---- the entry point and the rate limiter (SpecRL) ----
    now,               \* Date.now(), in ms
    botToken,          \* whether env.BOT_TOKEN is set
    rateLimitTracker,  \* the Map: client address -> timestamps
    rlLast,            \* the last request and the response it got
    accepted,          \* per address, the times within the trailing window
                       \* at which a request of it passed the limiter
    \* ---- webhook invocations (Spec) ----
    inv,               \* per invocation, where its handler stands
    chatInfoCache,     \* the Map: chat id -> {data, timestamp}
    tasks,             \* the deferred deletions handed to ctx.waitUntil
    \* ---- a second run of the handler, for comparison (SpecEdit) ----
    twin               \* the cache and the deferred deletions of the run
                       \* that inv[2] makes on its own copy of them

classVars == <<cMsg, cInfo, cResult>>
apiVars == <<apiPc, apiRetry, apiSent, apiLast, apiDelay, apiRet>>
rlVars == <<now, botToken, rateLimitTracker, rlLast, accepted>>
hookVars == <<inv, chatInfoCache, tasks, twin>>

vars == <<cMsg, cInfo, cResult, apiPc, apiRetry, apiSent, apiLast, apiDelay,
          apiRet, now, botToken, rateLimitTracker, rlLast, accepted,
          inv, chatInfoCache, tasks, twin>>

(***************************************************************************)
(* Data                                                                    *)
(***************************************************************************)

\* The ids of two channels.
ChannelA == -1001
ChannelB == -1002
ChatIds == {ChannelA, ChannelB}

\* message.chat.type, externalChat.type, forward_from_chat.type ...
RefTypes == {"channel", "supergroup"}

\* A chat object inside a message (external_reply.chat, forward_from_chat,
\* sender_chat).
ChatRefs == [kind : {"chat"}, type : RefTypes, id : ChatIds]
Absent == [kind |-> "absent"]

\* message.external_reply: absent, present without a chat, or with a chat.
ExternalReplies ==
    {Absent, [kind |-> "nochat"]} \cup ChatRefs

\* message.reply_to_message.  The three forward_* markers are modelled by
\* their truthiness, which is all the code reads.
ReplyToMessages ==
    [kind : {"message"},
     forward_from_chat : {Absent} \cup ChatRefs,
     sender_chat : {Absent} \cup ChatRefs,
     forward_sender_name : BOOLEAN,
     forward_date : BOOLEAN,
     forward_signature : BOOLEAN]

\* The attributes of a message that detectCrossChannelReply reads.
ReplyAttrs ==
    [external_reply : ExternalReplies,
     reply_to_message : {Absent} \cup ReplyToMessages]

\* The result of getChat (a Chat object) as getChatInfo returns it, or null.
NULL == [kind |-> "null"]
ChatInfo(linked) == [kind |-> "chat", linked_chat_id |-> linked]
ChatInfos == {NULL} \cup {ChatInfo(l) : l \in {0} \cup ChatIds}

NoResult == [kind |-> "none"]

(***************************************************************************)
(* The classifier                                                          *)
(***************************************************************************)

\* JavaScript truthiness of `currentChatInfo`
Truthy(v) == v.kind \notin {"null", "absent"}

\* Mutant: any linked channel counts, the comparison of the ids is lost.
isLinkedChannel_AnyLinked(groupChat, channelChatId) ==
    groupChat.linked_chat_id # 0

\* Lines 472-475.
isLinkedChannel(groupChat, channelChatId) ==
    groupChat.linked_chat_id # 0 /\ groupChat.linked_chat_id = channelChatId

Result(cross, ext, type, id) ==
    [kind |-> "result", isCrossChannel |-> cross, isExternal |-> ext,
     replyType |-> type, channelId |-> id]

\* Lines 371-377, 402-408, 425-431: the linked/external test of cases 1-3.
LinkedTest(currentChatInfo, type, id) ==
    IF Truthy(currentChatInfo) /\ isLinkedChannel(currentChatInfo, id)
    THEN Result(TRUE, FALSE, type, id)
    ELSE Result(TRUE, TRUE, type, id)

\* Mutant: the forward-signature case is lost.
detectReplyTo_NoSignatureCase(message, currentChatInfo) ==
    LET r == message.reply_to_message IN
    IF ~Truthy(r) THEN Result(FALSE, FALSE, "none", 0)
    ELSE IF Truthy(r.forward_from_chat) /\ r.forward_from_chat.type = "channel"
    THEN LinkedTest(currentChatInfo, "forward_from_channel", r.forward_from_chat.id)
    ELSE IF Truthy(r.sender_chat) /\ r.sender_chat.type = "channel"
    THEN LinkedTest(currentChatInfo, "sender_chat_channel", r.sender_chat.id)
    ELSE IF r.forward_sender_name \/ r.forward_date
    THEN Result(TRUE, TRUE, "hidden_forward", 0)
    ELSE Result(FALSE, FALSE, "none", 0)

\* Lines 383-466: the cases on message.reply_to_message.
detectReplyTo(message, currentChatInfo) ==
    LET r == message.reply_to_message IN
    IF ~Truthy(r) THEN Result(FALSE, FALSE, "none", 0)
    ELSE IF Truthy(r.forward_from_chat) /\ r.forward_from_chat.type = "channel"
    THEN LinkedTest(currentChatInfo, "forward_from_channel", r.forward_from_chat.id)
    ELSE IF Truthy(r.sender_chat) /\ r.sender_chat.type = "channel"
    THEN LinkedTest(currentChatInfo, "sender_chat_channel", r.sender_chat.id)
    ELSE IF r.forward_sender_name \/ r.forward_date
    THEN Result(TRUE, TRUE, "hidden_forward", 0)
    ELSE IF r.forward_signature
    THEN Result(TRUE, TRUE, "channel_signature", 0)
    ELSE Result(FALSE, FALSE, "none", 0)

\* detectCrossChannelReply after `await getChatInfo` has returned
\* currentChatInfo (lines 357-467).
detectCrossChannelReply(message, currentChatInfo) ==
    LET e == message.external_reply IN
    IF e.kind = "chat" /\ e.type = "channel"
    THEN LinkedTest(currentChatInfo, "external_reply", e.id)
    ELSE detectReplyTo(message, currentChatInfo)

(***************************************************************************)
(* The API client                                                          *)
(***************************************************************************)

MAX_RETRIES == 3

\* What one attempt's remote call can come to: the fetch rejects (network
\* failure), is aborted by the timeout, or a response arrives with an HTTP
\* status that is OK or not and a body that is not JSON, is the JSON value
\* null, or is an envelope {ok, result | error_code}.
ErrorCodes == {400, 403, 429, 502, 503, 504}
Outcomes ==
    {[transport |-> t, httpOk |-> FALSE, body |-> "none", error_code |-> 0] :
        t \in {"network", "timeout"}}
    \cup [transport : {"response"}, httpOk : BOOLEAN,
          body : {"unparsable", "null", "ok"}, error_code : {0}]
    \cup [transport : {"response"}, httpOk : BOOLEAN,
          body : {"error"}, error_code : ErrorCodes]
NoOutcome == [transport |-> "none"]

\* Lines 546-549.
isRetryableError(errorCode) == errorCode \in {429, 502, 503, 504}

RECURSIVE Pow2(_)
Pow2(n) == IF n = 0 THEN 1 ELSE 2 * Pow2(n - 1)

\* Line 514, 531: Math.pow(2, retryCount) * 1000
BackoffDelay(retryCount) == Pow2(retryCount) * 1000

\* What a block of makeApiRequest comes to.
Return(v) == [kind |-> "return", value |-> v]
Retry(delay) == [kind |-> "retry", delay |-> delay]
Throw(name) == [kind |-> "throw", name |-> name]

\* Lines 488-521, the try block once the remote call has come to `o`:
\* `result` is data.result of a successful envelope.
TryBlock(o, retryCount, result) ==
    IF o.transport = "timeout" THEN Throw("AbortError")
    ELSE IF o.transport = "network" THEN Throw("TypeError")
    ELSE IF ~o.httpOk THEN Throw("Error")
    ELSE IF o.body = "unparsable" THEN Throw("SyntaxError")
    ELSE IF o.body = "null" THEN Throw("TypeError")
    ELSE IF o.body = "ok" THEN Return(result)
    ELSE IF retryCount < MAX_RETRIES /\ isRetryableError(o.error_code)
    THEN Retry(BackoffDelay(retryCount))
    ELSE Return(NULL)

\* Mutant: the catch block rethrows once the retries are used up.
CatchBlock_Rethrow(error, retryCount) ==
    IF retryCount < MAX_RETRIES
    THEN Retry(BackoffDelay(retryCount))
    ELSE Throw(error)

\* Lines 522-538, the catch block.
CatchBlock(error, retryCount) ==
    IF retryCount < MAX_RETRIES
    THEN Retry(BackoffDelay(retryCount))
    ELSE Return(NULL)

\* Lines 488-538: one attempt of makeApiRequest, from the remote call's
\* outcome to a return, a retry or an exception that leaves the function.
Attempt(o, retryCount, result) ==
    LET t == TryBlock(o, retryCount, result) IN
    IF t.kind = "throw" THEN CatchBlock(t.name, retryCount) ELSE t

(***************************************************************************)
(* The entry point and the rate limiter                                    *)
(***************************************************************************)

RATE_LIMIT_WINDOW == 60000

\* CONFIG.MAX_REQUESTS_PER_WINDOW is 30 in the source.  The model runs the
\* limiter with a small limit, so that the limit is reached, passed and
\* reset within the time bound; nothing below depends on its value.
MAX_REQUESTS_PER_WINDOW == 3

\* The clock is read up to this time.
MaxNow == 120000

\* By how much the clock moves between two requests: a timestamp gets to
\* be less than a window, exactly a window and more than a window old.
TickDeltas == {30000, 60000}

\* The client addresses a request may carry in its two headers ("" is a
\* missing header).
HeaderValues == {"", "198.51.100.7"}
Addresses == {"198.51.100.7", "unknown"}

Routes == {"GET /health", "POST /webhook", "GET /setup", "GET /"}

\* Lines 108-112.
getClientIP(cf, xff) ==
    IF cf # "" THEN cf ELSE IF xff # "" THEN xff ELSE "unknown"

\* Mutant: a timestamp exactly one window old still counts.
ValidTimestamps_Inclusive(timestamps, windowStart) ==
    SelectSeq(timestamps, LAMBDA ts : ts >= windowStart)

\* Lines 126, 136: timestamps.filter(ts => ts > windowStart)
ValidTimestamps(timestamps, windowStart) ==
    SelectSeq(timestamps, LAMBDA ts : ts > windowStart)

\* Mutant: an entry left empty stays in the table.
CleanUp_KeepEmpty(tracker, windowStart) ==
    [ip \in DOMAIN tracker |-> ValidTimestamps(tracker[ip], windowStart)]

\* Lines 124-132: every entry is filtered, an entry left empty is deleted.
CleanUp(tracker, windowStart) ==
    LET keep == {ip \in DOMAIN tracker :
                    ValidTimestamps(tracker[ip], windowStart) # <<>>}
    IN  [ip \in keep |-> ValidTimestamps(tracker[ip], windowStart)]

\* Mutant: the limit is compared with > instead of >=.
OverLimit_OffByOne(count) == count > MAX_REQUESTS_PER_WINDOW

\* Line 138.
OverLimit(count) == count >= MAX_REQUESTS_PER_WINDOW

\* Lines 119-147: the result and the tracker after the call.
checkRateLimit(clientIP, tracker, t) ==
    LET windowStart == t - RATE_LIMIT_WINDOW
        cleaned == CleanUp(tracker, windowStart)
        currentTimestamps ==
            IF clientIP \in DOMAIN cleaned THEN cleaned[clientIP] ELSE <<>>
        validTimestamps == ValidTimestamps(currentTimestamps, windowStart)
    IN  IF OverLimit(Len(validTimestamps))
        THEN [allowed |-> FALSE, count |-> Len(validTimestamps),
              tracker |-> cleaned]
        ELSE [allowed |-> TRUE, count |-> Len(validTimestamps) + 1,
              tracker |->
                 [ip \in DOMAIN cleaned \cup {clientIP} |->
                     IF ip = clientIP THEN Append(validTimestamps, t)
                     ELSE cleaned[ip]]]

Response(status, retryAfter, handler) ==
    [status |-> status, retryAfter |-> retryAfter, handler |-> handler]

\* Lines 77-100: the routes; the webhook and setup handlers answer
\* themselves (status 0 here: the request was handed to `handler`).
Dispatch(route) ==
    CASE route = "GET /health" -> Response(200, "", "none")
      [] route = "POST /webhook" -> Response(0, "", "handleWebhook")
      [] route = "GET /setup" -> Response(0, "", "setupWebhook")
      [] OTHER -> Response(404, "", "none")

(***************************************************************************)
(* The webhook: updates, the metadata cache, moderation                    *)
(***************************************************************************)

CACHE_TTL == 300000
WARNING_AUTO_DELETE_DELAY == 10000

\* The chats updates come from: a supergroup whose linked channel is
\* ChannelA, a group without a linked channel, a private chat, a channel.
GroupA == -2001
GroupB == -2002
PrivateChat == 3001

\* What the platform's getChat answers for a chat: its linked_chat_id.
LinkedOf(chatId) == IF chatId = GroupA THEN ChannelA ELSE 0

Chat(id, type) == [kind |-> "chat", type |-> type, id |-> id]

\* A message of an update.  message_id 0 is a missing id; `from` is
\* "user", "bot" or "absent"; `text` is "none" (no text), "/start",
\* "/start payload" or "other".
Message(id, chat, from, text, ext, reply) ==
    [kind |-> "message", message_id |-> id, chat |-> chat, from |-> from,
     text |-> text, external_reply |-> ext, reply_to_message |-> reply]

ChannelRef(id) == [kind |-> "chat", type |-> "channel", id |-> id]
GroupRef(id) == [kind |-> "chat", type |-> "supergroup", id |-> id]

RepliedTo(fwd, sender, name, date, sig) ==
    [kind |-> "message", forward_from_chat |-> fwd, sender_chat |-> sender,
     forward_sender_name |-> name, forward_date |-> date,
     forward_signature |-> sig]

\* The replied-to messages of the updates: forwarded from a channel (with
\* its forward date), sent by a channel, forwarded with a hidden origin,
\* forwarded from a group's anonymous admin, carrying only a signature.
ForwardedFrom(c) == RepliedTo(c, Absent, FALSE, TRUE, FALSE)
SentBy(c) == RepliedTo(Absent, c, FALSE, FALSE, FALSE)
HiddenForward == RepliedTo(Absent, Absent, TRUE, TRUE, FALSE)
SignatureOnly == RepliedTo(Absent, Absent, FALSE, FALSE, TRUE)
PlainMessage == RepliedTo(Absent, Absent, FALSE, FALSE, FALSE)

InGroupA(id, ext, reply) ==
    Message(id, Chat(GroupA, "supergroup"), "user", "other", ext, reply)

GroupMessages ==
    { InGroupA(11, ChannelRef(ChannelA), Absent),
      InGroupA(12, ChannelRef(ChannelB), Absent),
      InGroupA(13, Absent, ForwardedFrom(ChannelRef(ChannelA))),
      InGroupA(14, Absent, SentBy(ChannelRef(ChannelA))),
      InGroupA(15, Absent, HiddenForward),
      InGroupA(16, Absent, ForwardedFrom(GroupRef(GroupB))),
      InGroupA(17, Absent, SignatureOnly),
      InGroupA(18, ChannelRef(ChannelA), SignatureOnly),
      InGroupA(19, Absent, PlainMessage),
      InGroupA(20, Absent, Absent),
      Message(21, Chat(GroupB, "group"), "user", "other",
              ChannelRef(ChannelA), Absent),
      Message(22, Chat(GroupB, "group"), "user", "other",
              Absent, SignatureOnly) }

OtherMessages ==
    { Message(31, Chat(PrivateChat, "private"), "user", "/start", Absent, Absent),
      Message(32, Chat(PrivateChat, "private"), "user", "other", Absent, Absent),
      Message(33, Chat(PrivateChat, "private"), "user", "none", Absent, Absent),
      Message(34, Chat(PrivateChat, "private"), "absent", "/start", Absent, Absent),
      Message(35, Chat(GroupA, "supergroup"), "bot", "other",
              ChannelRef(ChannelB), Absent),
      Message(36, Chat(ChannelB, "channel"), "absent", "other",
              ChannelRef(ChannelA), Absent),
      Message(37, Chat(PrivateChat, "private"), "user", "/start payload",
              Absent, Absent),
      Message(38, Chat(PrivateChat, "private"), "bot", "other", Absent, Absent),
      Message(0, Chat(GroupA, "supergroup"), "user", "other",
              ChannelRef(ChannelB), Absent) }

Messages == GroupMessages \cup OtherMessages

\* A webhook request: its Content-Type is JSON or not, its body is not
\* JSON or an update {update_id, message, edited_message}.
Update(id, message, edited) ==
    [contentType |-> "application/json", body |-> "json", update_id |-> id,
     message |-> message, edited_message |-> edited]

Updates ==
    {Update(1, m, Absent) : m \in Messages}
    \cup {Update(1, Absent, m) :
            m \in {InGroupA(12, ChannelRef(ChannelB), Absent),
                   InGroupA(11, ChannelRef(ChannelA), Absent)}}
    \cup {Update(1, InGroupA(11, ChannelRef(ChannelA), Absent),
                    InGroupA(12, ChannelRef(ChannelB), Absent)),
          Update(1, Message(34, Chat(PrivateChat, "private"), "absent",
                            "/start", Absent, Absent),
                    InGroupA(12, ChannelRef(ChannelB), Absent)),
          Update(1, InGroupA(12, ChannelRef(ChannelB), Absent),
                    InGroupA(12, ChannelRef(ChannelB), Absent)),
          Update(1, Absent, Absent)}

WebhookRequests ==
    Updates
    \cup {[Update(1, Absent, Absent) EXCEPT !.contentType = "text/plain"],
          [Update(1, Absent, Absent) EXCEPT !.body = "unparsable"],
          Update(0, InGroupA(12, ChannelRef(ChannelB), Absent), Absent)}

\* A remote call as an invocation's log keeps it: the method, the chat, the
\* message id (deleteMessage) and the text (sendMessage), and whether it
\* was made for the update's edited message.
Call(method, chatId, messageId, text, isEdited) ==
    [method |-> method, chat_id |-> chatId, message_id |-> messageId,
     text |-> text, isEdited |-> isEdited]

\* Mutant: an entry exactly one TTL old is still returned.
CacheLookup_Inclusive(cache, chatId, t) ==
    IF chatId \in DOMAIN cache
    THEN IF t - cache[chatId].timestamp <= CACHE_TTL
         THEN [hit |-> TRUE, data |-> cache[chatId].data, cache |-> cache]
         ELSE [hit |-> FALSE, data |-> NULL,
               cache |-> [c \in DOMAIN cache \ {chatId} |-> cache[c]]]
    ELSE [hit |-> FALSE, data |-> NULL, cache |-> cache]

\* Lines 562-570 of getChatInfo: the cache check at time t.
CacheLookup(cache, chatId, t) ==
    IF chatId \in DOMAIN cache
    THEN IF t - cache[chatId].timestamp < CACHE_TTL
         THEN [hit |-> TRUE, data |-> cache[chatId].data, cache |-> cache]
         ELSE [hit |-> FALSE, data |-> NULL,
               cache |-> [c \in DOMAIN cache \ {chatId} |-> cache[c]]]
    ELSE [hit |-> FALSE, data |-> NULL, cache |-> cache]

\* Mutant: the result is cached whatever it is.
CacheStore_Always(cache, chatId, chatInfo, lookupNow) ==
    [c \in DOMAIN cache \cup {chatId} |->
        IF c = chatId THEN [data |-> chatInfo, timestamp |-> lookupNow]
        ELSE cache[c]]

\* Lines 575-582 of getChatInfo: a successful result is cached with the
\* time read when the lookup began.
CacheStore(cache, chatId, chatInfo, lookupNow) ==
    IF Truthy(chatInfo)
    THEN [c \in DOMAIN cache \cup {chatId} |->
            IF c = chatId THEN [data |-> chatInfo, timestamp |-> lookupNow]
            ELSE cache[c]]
    ELSE cache

\* An invocation of the webhook handler: where it stands (pc), the message
\* it is handling (cur) and the ones of the update still to handle (queue),
\* the time its metadata lookup read (lookupNow), and, for the claims, the
\* request it was given (update), the cache lookups it made (lookups: the
\* chat, the time, the age of the entry found or -1, and whether the
\* entry was returned), the classifications it made (results),
\* the remote calls it issued (calls), what the calls that have ended
\* returned (returns: "null", "result", or for a sent message "id" or
\* "noid") and the status of its response (0: none yet).
NoItem == [msg |-> Absent, isEdited |-> FALSE]
Item(m, isEdited) == [msg |-> m, isEdited |-> isEdited]

NoUpdate == [Update(0, Absent, Absent) EXCEPT !.body = "none"]

IdleInvocation ==
    [pc |-> "idle", cur |-> NoItem, queue |-> <<>>, lookupNow |-> 0,
     update |-> NoUpdate, lookups |-> <<>>, results |-> <<>>, calls |-> <<>>,
     returns |-> <<>>, response |-> 0]

Issue(r, pc, method, messageId, text) ==
    [r EXCEPT !.pc = pc,
              !.calls = Append(@, Call(method, r.cur.msg.chat.id, messageId,
                                       text, r.cur.isEdited))]

\* Lines 599-610: deleteCrossChannelReply issues deleteMessage.
deleteCrossChannelReply(r) ==
    Issue(r, "delete", "deleteMessage", r.cur.msg.message_id, "")

\* Mutant: a linked-channel reply is handed to deletion too.
Blocked_AnyCrossChannel(crossChannelInfo) ==
    crossChannelInfo.isCrossChannel

\* Line 263.
Blocked(crossChannelInfo) ==
    crossChannelInfo.isCrossChannel /\ crossChannelInfo.isExternal

RECURSIVE Proceed(_, _, _)
RECURSIVE handleMessage(_, _, _)

\* The log of r with the lookup of chatId made at time t in `cache`.
Looked(r, cache, chatId, t, hit) ==
    [r EXCEPT !.lookups =
        Append(@, [chat_id |-> chatId, at |-> t,
                   age |-> IF chatId \in DOMAIN cache
                           THEN t - cache[chatId].timestamp ELSE -1,
                   hit |-> hit])]

\* Lines 261-270: handleMessage once getChatInfo has returned
\* currentChatInfo to detectCrossChannelReply.
Moderate(r, currentChatInfo, cache, t) ==
    LET crossChannelInfo == detectCrossChannelReply(r.cur.msg, currentChatInfo)
        r1 == [r EXCEPT !.results =
                 Append(@, [msg |-> r.cur.msg,
                            isEdited |-> r.cur.isEdited,
                            info |-> currentChatInfo,
                            result |-> crossChannelInfo])]
    IN  IF Blocked(crossChannelInfo)
        THEN [r |-> deleteCrossChannelReply(r1), cache |-> cache]
        ELSE Proceed(r1, cache, t)

\* Line 294: messageText === '/start' || messageText.startsWith('/start ')
IsStartCommand(messageText) == messageText \in {"/start", "/start payload"}

\* Mutant: the exception raised at line 295 is not caught at line 338 nor
\* further up, and the request is answered with 500.
handlePrivateMessage_Uncaught(r, cache, t) ==
    LET message == r.cur.msg IN
    IF message.text = "none" THEN Proceed(r, cache, t)
    ELSE IF IsStartCommand(message.text)
    THEN IF message.from = "absent"
         THEN [r |-> [r EXCEPT !.pc = "done", !.cur = NoItem, !.queue = <<>>,
                               !.response = 500],
               cache |-> cache]
         ELSE [r |-> Issue(r, "private", "sendMessage", 0, "start"),
               cache |-> cache]
    ELSE [r |-> Issue(r, "private", "sendMessage", 0, "help"), cache |-> cache]

\* Mutant: every text is answered with the greeting.
handlePrivateMessage_AlwaysGreets(r, cache, t) ==
    LET message == r.cur.msg IN
    IF message.text = "none" THEN Proceed(r, cache, t)
    ELSE IF message.from = "absent"
    THEN Proceed(r, cache, t)
    ELSE [r |-> Issue(r, "private", "sendMessage", 0, "start"), cache |-> cache]

\* Lines 283-341: handlePrivateMessage up to its remote call.
handlePrivateMessage(r, cache, t) ==
    LET message == r.cur.msg IN
    IF message.text = "none" THEN Proceed(r, cache, t)
    ELSE IF IsStartCommand(message.text)
    THEN IF message.from = "absent"
         THEN Proceed(r, cache, t)    \* line 295 throws, caught at line 338
         ELSE [r |-> Issue(r, "private", "sendMessage", 0, "start"),
               cache |-> cache]
    ELSE [r |-> Issue(r, "private", "sendMessage", 0, "help"), cache |-> cache]

\* Mutant: the messages of bots are moderated like any other.
handleMessage_NoBotTest(r, cache, t) ==
    LET message == r.cur.msg IN
    IF message.message_id = 0 \/ ~Truthy(message.chat)
    THEN Proceed(r, cache, t)
    ELSE IF message.chat.type = "private"
    THEN handlePrivateMessage(r, cache, t)
    ELSE IF message.chat.type \notin {"group", "supergroup"}
    THEN Proceed(r, cache, t)
    ELSE LET l == CacheLookup(cache, message.chat.id, t)
             looked == Looked(r, cache, message.chat.id, t, l.hit)
         IN  IF l.hit
             THEN Moderate(looked, l.data, l.cache, t)
             ELSE [r |-> [Issue(looked, "getChat", "getChat", 0, "")
                            EXCEPT !.lookupNow = t],
                   cache |-> l.cache]

\* Lines 229-261 and 346-355: handleMessage on r.cur at time t, up to the
\* remote call it suspends at, or through to the next message.
handleMessage(r, cache, t) ==
    LET message == r.cur.msg IN
    IF message.message_id = 0 \/ ~Truthy(message.chat)
    THEN Proceed(r, cache, t)
    ELSE IF message.chat.type = "private"
    THEN handlePrivateMessage(r, cache, t)
    ELSE IF message.chat.type \notin {"group", "supergroup"}
    THEN Proceed(r, cache, t)
    ELSE IF message.from = "bot"
    THEN Proceed(r, cache, t)
    ELSE LET l == CacheLookup(cache, message.chat.id, t)
             looked == Looked(r, cache, message.chat.id, t, l.hit)
         IN  IF l.hit
             THEN Moderate(looked, l.data, l.cache, t)
             ELSE [r |-> [Issue(looked, "getChat", "getChat", 0, "")
                            EXCEPT !.lookupNow = t],
                   cache |-> l.cache]

\* Lines 199-219 and 185: processUpdate goes on to the next message of the
\* update, and handleWebhook answers 200 when there is none.
Proceed(r, cache, t) ==
    IF r.queue = <<>>
    THEN [r |-> [r EXCEPT !.pc = "done", !.cur = NoItem, !.response = 200],
          cache |-> cache]
    ELSE handleMessage([r EXCEPT !.cur = Head(r.queue), !.queue = Tail(r.queue)],
                       cache, t)

\* Mutant: the edited message of an update is not handled.
MessagesOf_NoEdited(update) ==
    IF Truthy(update.message) THEN <<Item(update.message, FALSE)>> ELSE <<>>

\* Lines 201-209: the messages of an update, in the order handled.
MessagesOf(update) ==
    (IF Truthy(update.message) THEN <<Item(update.message, FALSE)>> ELSE <<>>)
    \o (IF Truthy(update.edited_message)
        THEN <<Item(update.edited_message, TRUE)>> ELSE <<>>)

\* Mutant: an update is not tested for its update_id.
handleWebhook_NoUpdateIdTest(request, cache, t) ==
    IF request.contentType # "application/json" \/ request.body # "json"
    THEN [r |-> [IdleInvocation EXCEPT !.pc = "done", !.response = 400,
                                       !.update = request],
          cache |-> cache]
    ELSE Proceed([IdleInvocation EXCEPT !.queue = MessagesOf(request),
                                        !.update = request],
                 cache, t)

\* Lines 156-190: handleWebhook on a request, up to its first remote call
\* or its response.
handleWebhook(request, cache, t) ==
    IF request.contentType # "application/json" \/ request.body # "json"
       \/ request.update_id = 0
    THEN [r |-> [IdleInvocation EXCEPT !.pc = "done", !.response = 400,
                                       !.update = request],
          cache |-> cache]
    ELSE Proceed([IdleInvocation EXCEPT !.queue = MessagesOf(request),
                                        !.update = request],
                 cache, t)

\* The remote answers of one call of makeApiRequest, attempt by attempt:
\* network failures, then a success, a logical failure the code does not
\* retry (HTTP status OK, error code 400) or one more network failure.
NetworkFailure ==
    [transport |-> "network", httpOk |-> FALSE, body |-> "none", error_code |-> 0]
Success ==
    [transport |-> "response", httpOk |-> TRUE, body |-> "ok", error_code |-> 0]
LogicalFailure ==
    [transport |-> "response", httpOk |-> TRUE, body |-> "error", error_code |-> 400]

CallOutcomes ==
    {[n \in 1..(MAX_RETRIES + 1) |-> IF n <= k THEN NetworkFailure ELSE last] :
        k \in 0..MAX_RETRIES, last \in {Success, LogicalFailure, NetworkFailure}}

\* Lines 485-539: makeApiRequest from attempt retryCount on, against the
\* answers os: what it returns to its caller, or the exception it raises.
RECURSIVE makeApiRequest(_, _, _)
makeApiRequest(os, retryCount, result) ==
    LET a == Attempt(os[retryCount + 1], retryCount, result) IN
    IF a.kind = "retry" /\ retryCount < MAX_RETRIES
    THEN makeApiRequest(os, retryCount + 1, result)
    ELSE a

(***************************************************************************)
(* The values the variables rest at in a specification that leaves them    *)
(***************************************************************************)

\* A request as rlLast records it: its address and route, when it came, the
\* earliest timestamp the tracker held for the address (-1: none), how many
\* requests of the address had passed within the window, whether the request
\* before it was one of the same address that was rejected, and the response.
RequestRecord(ip, route, at, earliest, before, afterRejected, response) ==
    [ip |-> ip, route |-> route, at |-> at, earliest |-> earliest,
     before |-> before, afterRejected |-> afterRejected,
     response |-> response]

NoRequest == RequestRecord("", "", 0, -1, 0, FALSE, Response(0, "", "none"))

RlIdle ==
    /\ now = 0
    /\ botToken = TRUE
    /\ rateLimitTracker = << >>
    /\ rlLast = NoRequest
    /\ accepted = [ip \in Addresses |-> <<>>]

ApiIdle ==
    /\ apiPc = "idle" /\ apiRetry = 0 /\ apiSent = 0
    /\ apiLast = NoOutcome /\ apiDelay = 0 /\ apiRet = NoResult

Invocations == {1, 2}

HookIdle ==
    /\ inv = [i \in Invocations |-> IdleInvocation]
    /\ chatInfoCache = << >>
    /\ tasks = {}
    /\ twin = [cache |-> << >>, tasks |-> {}]

(***************************************************************************)
(* SpecClassify: the classifier on every message and every lookup result   *)
(***************************************************************************)

ClassifyInit ==
    /\ cMsg \in ReplyAttrs
    /\ cInfo \in ChatInfos
    /\ cResult = NoResult
    /\ ApiIdle /\ RlIdle /\ HookIdle

Classify ==
    /\ cResult = NoResult
    /\ cResult' = detectCrossChannelReply(cMsg, cInfo)
    /\ UNCHANGED <<cMsg, cInfo>>
    /\ UNCHANGED <<apiVars, rlVars, hookVars>>

SpecClassify == ClassifyInit /\ [][Classify]_vars

(***************************************************************************)
(* SpecApi: one call of makeApiRequest against every remote behaviour      *)
(***************************************************************************)

ClassIdle ==
    /\ cMsg = [external_reply |-> Absent, reply_to_message |-> Absent]
    /\ cInfo = NULL
    /\ cResult = NoResult

\* The result payload of a successful call.
Payload == [kind |-> "true"]

ApiInit == ClassIdle /\ ApiIdle /\ RlIdle /\ HookIdle

\* Lines 485-497: the call starts and sends its first request.
ApiCall ==
    /\ apiPc = "idle"
    /\ apiPc' = "fetch"
    /\ apiSent' = 1
    /\ UNCHANGED <<apiRetry, apiLast, apiDelay, apiRet>>
    /\ UNCHANGED <<classVars, rlVars, hookVars>>

\* Lines 492-538: the remote call of the attempt comes to outcome o.
ApiRespond(o) ==
    /\ apiPc = "fetch"
    /\ apiLast' = o
    /\ LET a == Attempt(o, apiRetry, Payload) IN
         /\ apiPc' = CASE a.kind = "return" -> "done"
                        [] a.kind = "retry" -> "backoff"
                        [] a.kind = "throw" -> "raised"
         /\ apiRet' = IF a.kind = "return" THEN a.value ELSE apiRet
         /\ apiDelay' = IF a.kind = "retry" THEN a.delay ELSE 0
    /\ UNCHANGED <<apiRetry, apiSent>>
    /\ UNCHANGED <<classVars, rlVars, hookVars>>

\* Lines 516-517, 533-534: the backoff delay is over, the call recurses
\* with retryCount + 1 and sends the next request.
ApiBackoffDone ==
    /\ apiPc = "backoff"
    /\ apiPc' = "fetch"
    /\ apiRetry' = apiRetry + 1
    /\ apiSent' = apiSent + 1
    /\ apiDelay' = 0
    /\ UNCHANGED <<apiLast, apiRet>>
    /\ UNCHANGED <<classVars, rlVars, hookVars>>

ApiNext ==
    \/ ApiCall
    \/ \E o \in Outcomes : ApiRespond(o)
    \/ ApiBackoffDone

SpecApi == ApiInit /\ [][ApiNext]_vars

(***************************************************************************)
(* SpecRL: requests of two addresses on every route, as the clock moves    *)
(***************************************************************************)

RlInit ==
    /\ ClassIdle /\ ApiIdle /\ HookIdle
    /\ now = 0
    /\ botToken \in BOOLEAN
    /\ rateLimitTracker = << >>
    /\ rlLast = NoRequest
    /\ accepted = [ip \in Addresses |-> <<>>]

InWindow(timestamps, t) ==
    SelectSeq(timestamps, LAMBDA ts : ts > t - RATE_LIMIT_WINDOW)

\* Date.now() between two requests.
Tick(d) ==
    /\ now + d <= MaxNow
    /\ now' = now + d
    /\ accepted' = [ip \in Addresses |-> InWindow(accepted[ip], now + d)]
    /\ UNCHANGED <<botToken, rateLimitTracker, rlLast>>
    /\ UNCHANGED <<classVars, apiVars, hookVars>>

\* Mutant: the credential is tested after the rate limiter has counted
\* the request.
Request_CountedBeforeTokenTest(cf, xff, route) ==
    LET ip == getClientIP(cf, xff)
        r == checkRateLimit(ip, rateLimitTracker, now)
        earliest == IF ip \in DOMAIN rateLimitTracker
                    THEN rateLimitTracker[ip][1] ELSE -1
        rec(response) ==
            RequestRecord(ip, route, now, earliest, Len(accepted[ip]),
                          rlLast.ip = ip /\ rlLast.response.status = 429,
                          response)
    IN  /\ rateLimitTracker' = r.tracker
        /\ rlLast' = rec(IF ~r.allowed THEN Response(429, "60", "none")
                         ELSE IF ~botToken THEN Response(500, "", "none")
                         ELSE Dispatch(route))
        /\ accepted' = IF r.allowed
                       THEN [accepted EXCEPT ![ip] = Append(@, now)]
                       ELSE accepted

\* Lines 39-52, 62-101: a request with the two address headers cf and xff
\* on `route`, up to its response or its hand-over to a handler.
Request(cf, xff, route) ==
    LET ip == getClientIP(cf, xff)
        r == checkRateLimit(ip, rateLimitTracker, now)
        earliest == IF ip \in DOMAIN rateLimitTracker
                    THEN rateLimitTracker[ip][1] ELSE -1
        rec(response) ==
            RequestRecord(ip, route, now, earliest, Len(accepted[ip]),
                          rlLast.ip = ip /\ rlLast.response.status = 429,
                          response)
    IN  IF ~botToken
        THEN /\ rlLast' = rec(Response(500, "", "none"))
             /\ UNCHANGED <<rateLimitTracker, accepted>>
        ELSE /\ rateLimitTracker' = r.tracker
             /\ rlLast' = rec(IF r.allowed THEN Dispatch(route)
                              ELSE Response(429, "60", "none"))
             /\ accepted' = IF r.allowed
                            THEN [accepted EXCEPT ![ip] = Append(@, now)]
                            ELSE accepted

HandleRequest(cf, xff, route) ==
    /\ Request(cf, xff, route)
    /\ UNCHANGED <<now, botToken>>
    /\ UNCHANGED <<classVars, apiVars, hookVars>>

\* Line 39: env is an argument of every call of fetch; the credential it
\* carries is set or missing from one request to the next.
Configure(token) ==
    /\ botToken # token
    /\ botToken' = token
    /\ UNCHANGED <<now, rateLimitTracker, rlLast, accepted>>
    /\ UNCHANGED <<classVars, apiVars, hookVars>>

RlNext ==
    \/ \E d \in TickDeltas : Tick(d)
    \/ \E token \in BOOLEAN : Configure(token)
    \/ \E cf \in HeaderValues, xff \in HeaderValues, route \in Routes :
          HandleRequest(cf, xff, route)

SpecRL == RlInit /\ [][RlNext]_vars

(***************************************************************************)
(* Spec: webhook invocations, the metadata cache, deferred deletions       *)
(***************************************************************************)

\* The clock of Spec moves in steps of half the cache TTL, up to MaxClock.
ClockStep == {150000}
MaxClock == 300000

\* A new update is taken only while fewer deferred deletions are pending.
MaxPending == 1

Init ==
    /\ ClassIdle /\ ApiIdle /\ RlIdle /\ HookIdle

Unchanged == UNCHANGED <<classVars, apiVars, botToken, rateLimitTracker,
                         rlLast, accepted, twin>>

\* The clock stops at MaxClock, unless a deferred deletion still waits
\* for its time.
ClockTick(d) ==
    /\ \/ now + d <= MaxClock
       \/ \E task \in tasks : task.pc = "waiting" /\ task.due > now
    /\ now' = now + d
    /\ UNCHANGED hookVars
    /\ Unchanged

\* What the caller of makeApiRequest gets: the value returned, or null
\* from the catch block around the call (lines 585-588, 623-625, 659-661,
\* 687-690, 338-340).
Raised(a) == a.kind = "throw"
Returned(a) == IF a.kind = "return" THEN a.value ELSE NULL

\* Lines 156-261: invocation i receives a webhook request and runs up to
\* its first remote call or its response.
Receive(i, request) ==
    /\ inv[i].pc = "idle"
    /\ now <= MaxClock
    /\ Cardinality(tasks) < MaxPending
    /\ LET h == handleWebhook(request, chatInfoCache, now) IN
         /\ inv' = [inv EXCEPT ![i] = h.r]
         /\ chatInfoCache' = h.cache
    /\ UNCHANGED <<now, tasks>>
    /\ Unchanged

\* What a call that has ended returned, as the invocation's log keeps it.
ReturnKind(result) ==
    IF ~Truthy(result) THEN "null"
    ELSE IF result.kind = "message"
    THEN IF result.message_id # 0 THEN "id" ELSE "noid"
    ELSE "result"

Ended(r, result) == [r EXCEPT !.returns = Append(@, ReturnKind(result))]

\* Lines 573-588 and 261-270: getChatInfo resumes when its getChat call
\* ends against the answers os; the result is cached with the time read
\* when the lookup began, and the message is classified.
getChatResumed(r, cache, os, t) ==
    LET chatId == r.cur.msg.chat.id
        a == makeApiRequest(os, 0, ChatInfo(LinkedOf(chatId)))
        chatInfo == Returned(a)
        stored == IF Raised(a) THEN cache
                  ELSE CacheStore(cache, chatId, chatInfo, r.lookupNow)
    IN  Moderate(Ended(r, chatInfo), chatInfo, stored, t)

\* Mutant: the warning is sent only after a deletion that succeeded.
deleteResumed_WarnOnSuccess(r, cache, os, t) ==
    LET a == makeApiRequest(os, 0, [kind |-> "true"]) IN
    IF Raised(a) \/ ~Truthy(Returned(a))
    THEN Proceed(Ended(r, NULL), cache, t)
    ELSE [r |-> Issue(Ended(r, Returned(a)), "warn", "sendMessage", 0, "warning"),
          cache |-> cache]

\* Lines 612-621 and 636-645: deleteCrossChannelReply resumes when its
\* deleteMessage call ends, and sendWarningMessage issues the warning
\* whatever the result.
deleteResumed(r, cache, os, t) ==
    LET a == makeApiRequest(os, 0, [kind |-> "true"]) IN
    IF Raised(a)
    THEN Proceed(Ended(r, NULL), cache, t)
    ELSE [r |-> Issue(Ended(r, Returned(a)), "warn", "sendMessage", 0, "warning"),
          cache |-> cache]

\* Mutant: the deletion is due at once.
scheduleMessageDeletion_NoDelay(chatId, messageId, delayMs, t) ==
    [chat_id |-> chatId, message_id |-> messageId, due |-> t, pc |-> "waiting"]

\* Lines 702-707: scheduleMessageDeletion starts its delay.
scheduleMessageDeletion(chatId, messageId, delayMs, t) ==
    [chat_id |-> chatId, message_id |-> messageId, due |-> t + delayMs,
     pc |-> "waiting"]

\* Lines 647-657: sendWarningMessage resumes when its sendMessage call
\* ends; with a result that has a message id the deferred deletion is
\* scheduled.  `messageId` is the id the platform gives the warning (0:
\* the result carries none); `pending` are the deferred deletions so far.
warningResumed(r, cache, pending, os, messageId, t) ==
    LET chatId == r.cur.msg.chat.id
        a == makeApiRequest(os, 0, [kind |-> "message", message_id |-> messageId])
        result == Returned(a)
        p == Proceed(Ended(r, result), cache, t)
    IN  [r |-> p.r, cache |-> p.cache,
         tasks |-> IF Truthy(result) /\ result.message_id # 0
                   THEN pending \cup
                        {scheduleMessageDeletion(chatId, result.message_id,
                                                 WARNING_AUTO_DELETE_DELAY, t)}
                   ELSE pending]

\* Lines 316-341: handlePrivateMessage resumes when its sendMessage call
\* ends.
privateResumed(r, cache, os, t) ==
    Proceed(Ended(r, Returned(makeApiRequest(os, 0, [kind |-> "message",
                                                     message_id |-> 1]))),
            cache, t)

\* The getChat call of invocation i ends.
GetChatDone(i, os) ==
    /\ inv[i].pc = "getChat"
    /\ LET m == getChatResumed(inv[i], chatInfoCache, os, now) IN
         /\ inv' = [inv EXCEPT ![i] = m.r]
         /\ chatInfoCache' = m.cache
    /\ UNCHANGED <<now, tasks>>
    /\ Unchanged

\* The deleteMessage call of invocation i ends.
DeleteDone(i, os) ==
    /\ inv[i].pc = "delete"
    /\ LET d == deleteResumed(inv[i], chatInfoCache, os, now) IN
         /\ inv' = [inv EXCEPT ![i] = d.r]
         /\ chatInfoCache' = d.cache
    /\ UNCHANGED <<now, tasks>>
    /\ Unchanged

\* The id the platform gives the next message of a chat: one that no
\* message of the chat still to be deleted has.
RECURSIVE FreshId(_, _)
FreshId(chatId, n) ==
    IF \E task \in tasks : task.chat_id = chatId /\ task.message_id = n
    THEN FreshId(chatId, n + 1)
    ELSE n

\* The sendMessage call of the warning of invocation i ends.  `hasId`
\* tells whether the platform's result carries an id.
WarnDone(i, os, hasId) ==
    /\ inv[i].pc = "warn"
    /\ LET w == warningResumed(inv[i], chatInfoCache, tasks, os,
                   IF hasId THEN FreshId(inv[i].cur.msg.chat.id, 501) ELSE 0,
                   now)
       IN  /\ tasks' = w.tasks
           /\ inv' = [inv EXCEPT ![i] = w.r]
           /\ chatInfoCache' = w.cache
    /\ UNCHANGED now
    /\ Unchanged

\* The sendMessage call of handlePrivateMessage of invocation i ends.
PrivateDone(i, os) ==
    /\ inv[i].pc = "private"
    /\ LET p == privateResumed(inv[i], chatInfoCache, os, now) IN
         /\ inv' = [inv EXCEPT ![i] = p.r]
         /\ chatInfoCache' = p.cache
    /\ UNCHANGED <<now, tasks>>
    /\ Unchanged

\* The response has been sent: the invocation is over.
Respond(i) ==
    /\ inv[i].pc = "done"
    /\ inv' = [inv EXCEPT ![i] = IdleInvocation]
    /\ UNCHANGED <<now, chatInfoCache, tasks>>
    /\ Unchanged

\* Lines 707-710 and 671-678: the delay of a deferred deletion is over and
\* deleteWarningMessage issues deleteMessage.
DeferredDelete(task) ==
    /\ task.pc = "waiting"
    /\ now >= task.due
    /\ tasks' = (tasks \ {task}) \cup {[task EXCEPT !.pc = "deleting"]}
    /\ UNCHANGED <<now, inv, chatInfoCache>>
    /\ Unchanged

\* Mutant: a deferred deletion whose deleteMessage returned null is
\* scheduled again.
DeferredDone_RetriesOnFailure(task, os) ==
    /\ task.pc = "deleting"
    /\ tasks' = IF Truthy(Returned(makeApiRequest(os, 0, [kind |-> "true"])))
                THEN tasks \ {task}
                ELSE (tasks \ {task}) \cup
                     {scheduleMessageDeletion(task.chat_id, task.message_id,
                                              WARNING_AUTO_DELETE_DELAY, now)}
    /\ UNCHANGED <<now, inv, chatInfoCache>>
    /\ Unchanged

\* Lines 680-690 and 711-713: the deleteMessage call of the deferred
\* deletion ends; whatever its result, the task is over.
DeferredDone(task, os) ==
    /\ task.pc = "deleting"
    /\ tasks' = tasks \ {task}
    /\ UNCHANGED <<now, inv, chatInfoCache>>
    /\ Unchanged

\* Spec takes the updates one at a time: invocation 1 handles an update
\* to its response while the clock moves and deferred deletions run.
Serving == {1}

Next ==
    \/ \E d \in ClockStep : ClockTick(d)
    \/ \E i \in Serving, request \in WebhookRequests : Receive(i, request)
    \/ \E i \in Serving, os \in CallOutcomes : GetChatDone(i, os)
    \/ \E i \in Serving, os \in CallOutcomes : DeleteDone(i, os)
    \/ \E i \in Serving, os \in CallOutcomes, hasId \in BOOLEAN :
          WarnDone(i, os, hasId)
    \/ \E i \in Serving, os \in CallOutcomes : PrivateDone(i, os)
    \/ \E i \in Serving : Respond(i)
    \/ \E task \in tasks : DeferredDelete(task)
    \/ \E task \in tasks, os \in CallOutcomes : DeferredDone(task, os)

Spec == Init /\ [][Next]_vars

\* SpecFair: time passes, and the hosting environment keeps the promises
\* handed to ctx.waitUntil alive, so that a timer that is due fires
\* (line 653).
SpecFair ==
    /\ Spec
    /\ WF_vars(\E d \in ClockStep : ClockTick(d))
    /\ WF_vars(\E task \in tasks : DeferredDelete(task))

(***************************************************************************)
(* SpecOverlap: two invocations of the webhook handler that interleave at  *)
(* their remote calls                                                      *)
(***************************************************************************)

\* The updates of the overlapping invocations: a reply to the linked
\* channel and a reply to another channel, both in the same supergroup.
OverlapRequests ==
    {Update(1, InGroupA(11, ChannelRef(ChannelA), Absent), Absent),
     Update(1, InGroupA(12, ChannelRef(ChannelB), Absent), Absent)}

OverlapNext ==
    \/ \E d \in ClockStep : ClockTick(d)
    \/ \E i \in Invocations, request \in OverlapRequests : Receive(i, request)
    \/ \E i \in Invocations, os \in CallOutcomes : GetChatDone(i, os)
    \/ \E i \in Invocations, os \in CallOutcomes : DeleteDone(i, os)
    \/ \E i \in Invocations, os \in CallOutcomes, hasId \in BOOLEAN :
          WarnDone(i, os, hasId)
    \/ \E i \in Invocations : Respond(i)
    \/ \E task \in tasks : DeferredDelete(task)
    \/ \E task \in tasks, os \in CallOutcomes : DeferredDone(task, os)

SpecOverlap == Init /\ [][OverlapNext]_vars

(***************************************************************************)
(* SpecEdit: a message handled as new and the same message handled as      *)
(* edited, from the same cache and against the same remote answers         *)
(***************************************************************************)

\* The cache states the two runs start from: empty, or holding the
\* metadata of one chat or of both, stored at time 0.
CachedAtZero(chatId) == [data |-> ChatInfo(LinkedOf(chatId)), timestamp |-> 0]

EditCaches ==
    {[chatId \in chats |-> CachedAtZero(chatId)] :
        chats \in SUBSET {GroupA, GroupB}}

\* The times of the runs: an entry stored at 0 is fresh, or has expired.
EditTimes == {0, 150000, 300000}

EditInit ==
    /\ ClassIdle /\ ApiIdle
    /\ now \in EditTimes
    /\ botToken = TRUE
    /\ rateLimitTracker = << >>
    /\ rlLast = NoRequest
    /\ accepted = [ip \in Addresses |-> <<>>]
    /\ inv = [i \in Invocations |-> IdleInvocation]
    /\ chatInfoCache \in EditCaches
    /\ tasks = {}
    /\ twin = [cache |-> chatInfoCache, tasks |-> {}]

EditUnchanged == UNCHANGED <<classVars, apiVars, rlVars>>

\* Invocation 1 is given the update that carries m as its message,
\* invocation 2 the update that carries m as its edited message.
EditReceive(m) ==
    /\ inv[1].pc = "idle" /\ inv[2].pc = "idle"
    /\ LET h == handleWebhook(Update(1, m, Absent), chatInfoCache, now)
           e == handleWebhook(Update(1, Absent, m), twin.cache, now)
       IN  /\ inv' = [inv EXCEPT ![1] = h.r, ![2] = e.r]
           /\ chatInfoCache' = h.cache
           /\ twin' = [twin EXCEPT !.cache = e.cache]
    /\ UNCHANGED tasks
    /\ EditUnchanged

\* The handler r resumes from the remote call it waits for, which ends
\* against the answers os (messageId: the id the platform gives a message
\* sent).
Resumed(r, cache, pending, os, messageId, t) ==
    LET Kept(p) == [r |-> p.r, cache |-> p.cache, tasks |-> pending] IN
    CASE r.pc = "getChat" -> Kept(getChatResumed(r, cache, os, t))
      [] r.pc = "delete" -> Kept(deleteResumed(r, cache, os, t))
      [] r.pc = "warn" -> warningResumed(r, cache, pending, os, messageId, t)
      [] r.pc = "private" -> Kept(privateResumed(r, cache, os, t))
      [] OTHER -> [r |-> r, cache |-> cache, tasks |-> pending]

\* The call each of the two invocations waits for ends, for both against
\* the same answers.
EditResume(os, hasId) ==
    /\ \E i \in Invocations : inv[i].pc \notin {"idle", "done"}
    /\ LET messageId == IF hasId THEN 501 + Cardinality(tasks) ELSE 0
           h == Resumed(inv[1], chatInfoCache, tasks, os, messageId, now)
           e == Resumed(inv[2], twin.cache, twin.tasks, os, messageId, now)
       IN  /\ inv' = [inv EXCEPT ![1] = h.r, ![2] = e.r]
           /\ chatInfoCache' = h.cache
           /\ tasks' = h.tasks
           /\ twin' = [cache |-> e.cache, tasks |-> e.tasks]
    /\ EditUnchanged

EditNext ==
    \/ \E m \in Messages : EditReceive(m)
    \/ \E os \in CallOutcomes, hasId \in BOOLEAN : EditResume(os, hasId)

SpecEdit == EditInit /\ [][EditNext]_vars

(***************************************************************************)
(* Claims about the handling of messages                                   *)
(***************************************************************************)

\* The invocation has issued deleteMessage for the message it is handling,
\* or has gone on to send the warning for it.
Moderating(i) == inv[i].pc \in {"delete", "warn"}

IsChannel(c) == c.kind = "chat" /\ c.type = "channel"

\* The channel a reply is sourced from: the one of its external-reply
\* reference, else the one its replied-to message was forwarded from, else
\* the one that sent its replied-to message; 0 when there is none.
SourceChannel(m) ==
    IF IsChannel(m.external_reply) THEN m.external_reply.id
    ELSE IF m.reply_to_message.kind # "message" THEN 0
    ELSE IF IsChannel(m.reply_to_message.forward_from_chat)
    THEN m.reply_to_message.forward_from_chat.id
    ELSE IF IsChannel(m.reply_to_message.sender_chat)
    THEN m.reply_to_message.sender_chat.id
    ELSE 0

LastOf(seq) == seq[Len(seq)]

\* C2 as stated: a reply sourced from the chat's linked channel is never
\* deleted and never warned about, whatever the remote calls come to.
C2_LinkedReplyNeverDeleted ==
    \A i \in Invocations :
        Moderating(i) =>
            ~(/\ SourceChannel(inv[i].cur.msg) # 0
              /\ SourceChannel(inv[i].cur.msg) = LinkedOf(inv[i].cur.msg.chat.id))

\* C2, amended: a reply sourced from a channel is deleted or warned about
\* only if the metadata lookup made for it returned null or metadata whose
\* linked channel is not that channel; a reply sourced from the linked
\* channel that the returned metadata names is permitted.
C2_LinkedReplyPermittedGivenMetadata ==
    \A i \in Invocations :
        (Moderating(i) /\ SourceChannel(inv[i].cur.msg) # 0) =>
            LET e == LastOf(inv[i].results) IN
            /\ e.msg = inv[i].cur.msg
            /\ \/ e.info = NULL
               \/ e.info.linked_chat_id # SourceChannel(inv[i].cur.msg)

\* A reply to a message forwarded from the linked channel has been handled
\* with metadata at hand: nothing but the lookup was issued.
C2_Witness ==
    /\ inv[1].pc = "done" /\ inv[1].response = 200
    /\ Len(inv[1].results) = 1
    /\ inv[1].results[1].msg = InGroupA(13, Absent, ForwardedFrom(ChannelRef(ChannelA)))
    /\ inv[1].results[1].info = ChatInfo(ChannelA)
    /\ ~inv[1].results[1].result.isExternal
    /\ \A k \in 1..Len(inv[1].calls) : inv[1].calls[k].method = "getChat"

\* The replied-to message has a forward timestamp and a resolvable source
\* chat that is not a channel, and was not sent by a channel.
ResolvableForward(m) ==
    /\ ~IsChannel(m.external_reply)
    /\ m.reply_to_message.kind = "message"
    /\ m.reply_to_message.forward_date
    /\ m.reply_to_message.forward_from_chat.kind = "chat"
    /\ ~IsChannel(m.reply_to_message.forward_from_chat)
    /\ ~IsChannel(m.reply_to_message.sender_chat)

\* C4: a reply to a message with a forward timestamp and a resolvable
\* source chat that is not a channel does not match the hidden-forward
\* rule: it is classified not cross-channel and is not deleted.
C4_ResolvableForwardNotHidden ==
    \A i \in Invocations :
        /\ \A k \in 1..Len(inv[i].results) :
              ResolvableForward(inv[i].results[k].msg)
                 => ~inv[i].results[k].result.isCrossChannel
        /\ Moderating(i) => ~ResolvableForward(inv[i].cur.msg)

\* The replied-to message carries a forward signature and nothing else.
SignatureOnlyReply(m) ==
    /\ m.reply_to_message.kind = "message"
    /\ m.reply_to_message.forward_signature
    /\ m.reply_to_message.forward_from_chat = Absent
    /\ m.reply_to_message.sender_chat = Absent
    /\ ~m.reply_to_message.forward_sender_name
    /\ ~m.reply_to_message.forward_date

CrossAndExternal(result) == result.isCrossChannel /\ result.isExternal

\* C5 as stated: a message whose replied-to message carries only a forward
\* signature is classified cross-channel and external in every cache state.
C5_SignatureOnlyAlwaysExternal ==
    \A i \in Invocations : \A k \in 1..Len(inv[i].results) :
        SignatureOnlyReply(inv[i].results[k].msg)
            => CrossAndExternal(inv[i].results[k].result)

\* C5, amended: so it is when the message itself carries no external-reply
\* reference to a channel, whatever the lookup returned: null after a
\* failed fetch, or metadata, fetched or cached, with or without a linked
\* channel.
C5_SignatureOnlyExternalWithoutExternalReply ==
    \A i \in Invocations : \A k \in 1..Len(inv[i].results) :
        (SignatureOnlyReply(inv[i].results[k].msg)
           /\ ~IsChannel(inv[i].results[k].msg.external_reply))
            => /\ CrossAndExternal(inv[i].results[k].result)
               /\ inv[i].results[k].result.replyType = "channel_signature"

\* Such a message classified from a cache entry that names a linked
\* channel: no lookup call was issued, the message is being deleted.
C5_Witness ==
    /\ inv[1].pc = "delete"
    /\ SignatureOnlyReply(inv[1].cur.msg)
    /\ ~IsChannel(inv[1].cur.msg.external_reply)
    /\ LastOf(inv[1].results).info = ChatInfo(ChannelA)
    /\ CrossAndExternal(LastOf(inv[1].results).result)
    /\ Len(inv[1].calls) = 1

\* Invocation i resumes from the sendMessage call of a warning in this
\* step, and the call returned `kind`.
WarningEnded(i, kind) ==
    /\ inv[i].pc = "warn"
    /\ inv'[i] # inv[i]
    /\ inv'[i].returns = Append(inv[i].returns, kind)

\* A deferred deletion is scheduled exactly when a warning send returned a
\* message with an identifier, for that chat and due after the fixed delay.
ScheduledWhenSent ==
    /\ \A i \in Invocations :
          WarningEnded(i, "id") =>
              \E task \in tasks' \ tasks :
                  /\ task.pc = "waiting"
                  /\ task.chat_id = inv[i].cur.msg.chat.id
                  /\ task.due = now + 10000
    /\ \A task \in tasks' \ tasks :
          task.pc = "waiting" => \E i \in Invocations : WarningEnded(i, "id")

\* A scheduled deletion stays until its deleteMessage is issued.
NeverCancelled ==
    \A task \in tasks :
        task.pc = "waiting" =>
            task \in tasks' \/ [task EXCEPT !.pc = "deleting"] \in tasks'

\* The deleteMessage of a deferred deletion is issued only in a step taken
\* when its time has come.
IssuedWhenDue ==
    \A task \in tasks :
        (task.pc = "waiting" /\ [task EXCEPT !.pc = "deleting"] \in tasks')
            => now >= task.due

\* C12: a deferred deletion is scheduled exactly when the warning send
\* returned a message identifier; once scheduled it is never dropped; its
\* deleteMessage is issued no earlier than 10 s after scheduling, and,
\* given that time passes and background work is kept alive, it is issued
\* eventually: whenever deletions wait, a time comes at which none waits,
\* and a waiting deletion goes only by having its deleteMessage issued.
C12_DeferredDeletion ==
    /\ [][ScheduledWhenSent /\ NeverCancelled /\ IssuedWhenDue]_vars
    /\ (\E task \in tasks : task.pc = "waiting")
          ~> (\A task \in tasks : task.pc # "waiting")

\* The clock has moved past the delay and the deleteMessage of a deferred
\* deletion is in flight.
C12_Witness ==
    \E task \in tasks :
        /\ task.pc = "deleting"
        /\ now >= task.due
        /\ task.due \in {10000, 160000, 310000}

\* The request passes the validation of handleWebhook.
ValidRequest(request) ==
    /\ request.contentType = "application/json"
    /\ request.body = "json"
    /\ request.update_id # 0

\* A message that handleMessage hands to the classifier.
Classifiable(m) ==
    /\ m.kind = "message"
    /\ m.message_id # 0
    /\ m.chat.type \in {"group", "supergroup"}
    /\ m.from # "bot"

\* Invocation i classified the edited message of its update.
EditedHandled(i) ==
    \E k \in 1..Len(inv[i].results) :
        /\ inv[i].results[k].isEdited
        /\ inv[i].results[k].msg = inv[i].update.edited_message

\* C13: a webhook request that passed validation is answered with 200 and
\* with nothing else, whatever the remote calls returned and whether or
\* not handling a message raised an exception; and the edited message of
\* its update has been handled by then, even after an exception in the
\* handling of its message.
C13_AcceptedAnswered200 ==
    \A i \in Invocations :
        ValidRequest(inv[i].update) =>
            /\ inv[i].response \in {0, 200}
            /\ inv[i].pc = "done" =>
                  /\ inv[i].response = 200
                  /\ inv[i].queue = <<>>
                  /\ Classifiable(inv[i].update.edited_message)
                        => EditedHandled(i)

\* The update's message raised an exception (a /start without sender),
\* its edited message was classified, every remote call made for it
\* returned null, and the response is 200.
C13_Witness ==
    /\ inv[1].pc = "done" /\ inv[1].response = 200
    /\ inv[1].update.message.kind = "message"
    /\ inv[1].update.message.from = "absent"
    /\ IsStartCommand(inv[1].update.message.text)
    /\ EditedHandled(1)
    /\ inv[1].returns = <<"null", "null", "null">>

\* Invocation i has just been given a request that fails the validation.
RejectedNow(i) ==
    /\ inv[i].pc = "idle"
    /\ inv'[i].pc # "idle"
    /\ ~ValidRequest(inv'[i].update)

\* C14: a webhook request with a bad content type, an unparsable body or
\* an update without id is answered with 400 in the step that receives
\* it, which leaves the metadata cache and the deferred deletions as they
\* were; the invocation issues no remote call and classifies nothing.
C14_MalformedRejected ==
    /\ [][\A i \in Invocations :
            RejectedNow(i) =>
                /\ inv'[i].pc = "done" /\ inv'[i].response = 400
                /\ chatInfoCache' = chatInfoCache
                /\ tasks' = tasks]_vars
    /\ [](\A i \in Invocations :
            (inv[i].pc # "idle" /\ ~ValidRequest(inv[i].update)) =>
                /\ inv[i].pc = "done" /\ inv[i].response = 400
                /\ inv[i].calls = <<>> /\ inv[i].results = <<>>
                /\ inv[i].queue = <<>>)

\* An update without id that carries a message the classifier would
\* block has been rejected while the cache holds an entry.
C14_Witness ==
    /\ inv[1].pc = "done" /\ inv[1].response = 400
    /\ inv[1].update.body = "json" /\ inv[1].update.update_id = 0
    /\ inv[1].update.message.kind = "message"
    /\ inv[1].calls = <<>>
    /\ DOMAIN chatInfoCache # {}

IsPrivate(m) == m.kind = "message" /\ m.chat.type = "private"

\* The update carries messages of private chats only.
PrivateOnly(update) ==
    /\ IsPrivate(update.message) \/ IsPrivate(update.edited_message)
    /\ update.message = Absent \/ IsPrivate(update.message)
    /\ update.edited_message = Absent \/ IsPrivate(update.edited_message)

\* The message of its update that invocation i made a call for.
MessageOfCall(i, call) ==
    IF call.isEdited THEN inv[i].update.edited_message
    ELSE inv[i].update.message

\* C15: a message of a private chat is never classified.  The only call
\* made for it is one sendMessage, with the greeting when its text is the
\* /start command and the help text otherwise; no entry of the results is
\* for a private message; and the steps of an invocation whose update
\* carries private messages only leave the metadata cache unchanged.
C15_PrivateNeverClassified ==
    /\ [](\A i \in Invocations :
            /\ \A k \in 1..Len(inv[i].results) :
                  ~IsPrivate(inv[i].results[k].msg)
            /\ \A k \in 1..Len(inv[i].calls) :
                  LET call == inv[i].calls[k] IN
                  IsPrivate(MessageOfCall(i, call)) =>
                      /\ call.method = "sendMessage"
                      /\ call.text = IF IsStartCommand(MessageOfCall(i, call).text)
                                     THEN "start" ELSE "help"
                      /\ \A j \in 1..Len(inv[i].calls) :
                            inv[i].calls[j].isEdited = call.isEdited => j = k)
    /\ [][\A i \in Invocations :
            (inv'[i] # inv[i] /\ PrivateOnly(inv'[i].update))
                => chatInfoCache' = chatInfoCache]_vars

\* A /start with a payload has been answered with the greeting, and
\* nothing else was done, while the cache holds an entry.
C15_Witness ==
    /\ inv[1].pc = "done" /\ inv[1].response = 200
    /\ inv[1].update.message.kind = "message"
    /\ inv[1].update.message.text = "/start payload"
    /\ Len(inv[1].calls) = 1 /\ inv[1].calls[1].text = "start"
    /\ inv[1].returns = <<"id">>
    /\ DOMAIN chatInfoCache # {}

\* A message sent by a bot, or one of a chat that is neither private nor
\* a group nor a supergroup.
Ignorable(m) ==
    /\ m.kind = "message"
    /\ \/ m.from = "bot"
       \/ m.chat.type \notin {"private", "group", "supergroup"}

\* The update carries ignorable messages only.
IgnorableOnly(update) ==
    /\ Ignorable(update.message) \/ Ignorable(update.edited_message)
    /\ update.message = Absent \/ Ignorable(update.message)
    /\ update.edited_message = Absent \/ Ignorable(update.edited_message)

\* C16: a message sent by a bot, in whatever chat, and a message of any
\* other chat type cause no remote call and no classification, and the
\* steps of an invocation whose update carries such messages only leave
\* the metadata cache unchanged.
C16_IgnoredMessagesCauseNothing ==
    /\ [](\A i \in Invocations :
            /\ \A k \in 1..Len(inv[i].results) :
                  ~Ignorable(inv[i].results[k].msg)
            /\ \A k \in 1..Len(inv[i].calls) :
                  ~Ignorable(MessageOfCall(i, inv[i].calls[k])))
    /\ [][\A i \in Invocations :
            (inv'[i] # inv[i] /\ IgnorableOnly(inv'[i].update))
                => chatInfoCache' = chatInfoCache]_vars

\* A log without its marks of which message of the update an entry is for.
Unmarked(log) == [k \in 1..Len(log) |-> [log[k] EXCEPT !.isEdited = FALSE]]

\* C17: handled as a new message and as an edited message, from the same
\* cache state and against the same remote answers, a message gets the
\* same classification, the same sequence of remote calls with the same
\* results, the same response, and leaves the same cache and the same
\* deferred deletions.
C17_EditedHandledAsNew ==
    /\ inv[1].pc = inv[2].pc
    /\ inv[1].cur.msg = inv[2].cur.msg
    /\ Unmarked(inv[1].results) = Unmarked(inv[2].results)
    /\ Unmarked(inv[1].calls) = Unmarked(inv[2].calls)
    /\ inv[1].returns = inv[2].returns
    /\ inv[1].response = inv[2].response
    /\ chatInfoCache = twin.cache
    /\ tasks = twin.tasks

\* Both runs have ended after an expired cache entry was replaced and
\* the message was deleted and warned about, one run for the message and
\* the other for the edited message.
C17_Witness ==
    /\ inv[1].pc = "done" /\ inv[2].pc = "done"
    /\ Len(inv[1].calls) = 3 /\ Len(inv[2].calls) = 3
    /\ ~inv[1].calls[3].isEdited /\ inv[2].calls[3].isEdited
    /\ inv[1].update.edited_message = Absent
    /\ inv[2].update.message = Absent
    /\ now = 300000
    /\ GroupA \in DOMAIN twin.cache /\ twin.cache[GroupA].timestamp = 300000
    /\ tasks # {}

\* C19: a metadata lookup is made only for a message that one of rules 1
\* to 3 matches (a channel as the source of its reply); for a message
\* that the hidden-forward rule or the forward-signature rule classifies,
\* and for one that no rule matches, no getChat call is issued.
C19_LookupOnlyForChannelRules ==
    \A i \in Invocations : \A k \in 1..Len(inv[i].calls) :
        inv[i].calls[k].method = "getChat"
            => SourceChannel(MessageOfCall(i, inv[i].calls[k])) # 0

\* Invocation i has fetched the metadata of chatId from the platform: a
\* getChat call of it for the chat has ended with a result.
Fetched(i, chatId) ==
    \E k \in 1..Len(inv[i].returns) :
        /\ inv[i].calls[k].method = "getChat"
        /\ inv[i].calls[k].chat_id = chatId
        /\ inv[i].returns[k] = "result"

\* The lookups of the two invocations began within the cache TTL of each
\* other.
WithinTtl(i, j) ==
    /\ inv[i].lookupNow - inv[j].lookupNow < CACHE_TTL
    /\ inv[j].lookupNow - inv[i].lookupNow < CACHE_TTL

\* C20: of two invocations that classify a message of the same chat
\* within the cache TTL of each other, at most one fetches the chat's
\* metadata from the platform, however the two interleave.
C20_OneFetchWithinTtl ==
    \A i, j \in Invocations : \A chatId \in {GroupA, GroupB} :
        (i # j /\ WithinTtl(i, j)) => ~(Fetched(i, chatId) /\ Fetched(j, chatId))

\* The lookups invocation i makes in this step.
NewLookups(i) ==
    {inv'[i].lookups[k] : k \in (Len(inv[i].lookups) + 1)..Len(inv'[i].lookups)}

\* A lookup returns the entry exactly when it finds one of age less than
\* the TTL.
HitWhenFresh ==
    \A i \in Invocations : \A k \in 1..Len(inv[i].lookups) :
        inv[i].lookups[k].hit <=>
            (inv[i].lookups[k].age >= 0 /\ inv[i].lookups[k].age < CACHE_TTL)

\* A lookup that returns no entry leaves none for its chat and issues
\* one getChat call, on which the invocation waits.
MissFetchesOnce ==
    \A i \in Invocations : \A l \in NewLookups(i) :
        ~l.hit =>
            /\ l.chat_id \notin DOMAIN chatInfoCache'
            /\ inv'[i].pc = "getChat"
            /\ Len(inv'[i].calls) = Len(inv[i].calls) + 1
            /\ LastOf(inv'[i].calls).method = "getChat"
            /\ LastOf(inv'[i].calls).chat_id = l.chat_id

\* An entry goes only by a lookup for its own chat that found it expired.
EvictedOnlyWhenExpired ==
    \A chatId \in DOMAIN chatInfoCache \ DOMAIN chatInfoCache' :
        \E i \in Invocations : \E l \in NewLookups(i) :
            l.chat_id = chatId /\ ~l.hit /\ l.age >= CACHE_TTL

\* C21: getChatInfo returns a cached entry only when its age is strictly
\* less than the TTL; a lookup that finds an entry of age at least the TTL
\* evicts it and issues exactly one getChat call; and no lookup evicts the
\* entry of another chat.
C21_CacheLookup ==
    /\ []HitWhenFresh
    /\ [][MissFetchesOnce /\ EvictedOnlyWhenExpired]_vars

\* An entry exactly one TTL old has been found and evicted, a fetch is
\* under way, and the entry of the other chat, as old, is still there.
C21_Witness ==
    /\ inv[1].pc = "getChat"
    /\ LastOf(inv[1].lookups) =
          [chat_id |-> GroupA, at |-> 300000, age |-> CACHE_TTL, hit |-> FALSE]
    /\ GroupA \notin DOMAIN chatInfoCache
    /\ GroupB \in DOMAIN chatInfoCache
    /\ chatInfoCache[GroupB].timestamp = 0

\* The getChat call of invocation i ends in this step, with null.
FetchFailed(i) ==
    /\ inv[i].pc = "getChat"
    /\ inv'[i].returns = Append(inv[i].returns, "null")

ResponseNotBlocked ==
    \A i \in Invocations :
        (WarningEnded(i, "id") /\ inv[i].queue = <<>>) =>
            /\ inv'[i].pc = "done" /\ inv'[i].response = 200
            /\ \E task \in tasks' \ tasks :
                  task.pc = "waiting" /\ task.due > now'

\* The steps of a deferred deletion touch no invocation and no cache
\* entry, and the step in which its deleteMessage ends, whatever the call
\* returned, only takes the deletion off the pending ones.
DeferredOutcomeIgnored ==
    \A task \in tasks :
        /\ (task.pc = "waiting" /\ task \notin tasks')
              => UNCHANGED <<inv, chatInfoCache, now>>
        /\ (task.pc = "deleting" /\ task \notin tasks')
              => /\ tasks' = tasks \ {task}
                 /\ UNCHANGED <<inv, chatInfoCache, now>>

\* C23: the deferred deletion of a warning does not hold back the
\* response to the webhook call that caused it, and nothing of what it
\* does or of what its deleteMessage returns changes an invocation, its
\* response or the cache.
C23_DeferredDeletionDetached ==
    [][ResponseNotBlocked /\ DeferredOutcomeIgnored]_vars

\* The invocation has answered and is over while the deletion of the
\* warning it sent is still waiting for its time.
C23_Witness ==
    /\ inv[1].pc = "idle"
    /\ \E task \in tasks : task.pc = "waiting" /\ task.due > now

\* C24: the timestamp of the cache entry of a chat never decreases: no
\* step replaces an entry by one with an earlier timestamp, however the
\* lookups of overlapping invocations interleave.
C24_TimestampNeverDecreases ==
    [][\A chatId \in DOMAIN chatInfoCache \cap DOMAIN chatInfoCache' :
         chatInfoCache'[chatId].timestamp >= chatInfoCache[chatId].timestamp]_vars

IsWarning(call) == call.method = "sendMessage" /\ call.text = "warning"

IsDeletion(call) == call.method = "deleteMessage"

\* C11: in an invocation's sequence of remote calls, a warning is issued
\* only right after the deleteMessage call for the same message has ended,
\* and every deleteMessage call that has ended, with a result or with
\* null, is followed by exactly one warning.
C11_DeletionThenOneWarning ==
    \A i \in Invocations :
        LET calls == inv[i].calls
            ended == Len(inv[i].returns)
        IN  \A k \in 1..Len(calls) :
              /\ IsWarning(calls[k]) =>
                    /\ k > 1 /\ k - 1 <= ended
                    /\ IsDeletion(calls[k - 1])
                    /\ calls[k - 1].chat_id = calls[k].chat_id
                    /\ calls[k - 1].isEdited = calls[k].isEdited
              /\ (IsDeletion(calls[k]) /\ k <= ended) =>
                    /\ k < Len(calls) /\ IsWarning(calls[k + 1])
                    /\ k + 2 <= Len(calls) => ~IsWarning(calls[k + 2])

\* An update has been handled in which the deletion returned null and the
\* warning was sent all the same.
C11_Witness ==
    /\ inv[1].pc = "done"
    /\ \E k \in 1..(Len(inv[1].calls) - 1) :
          /\ IsDeletion(inv[1].calls[k]) /\ inv[1].returns[k] = "null"
          /\ IsWarning(inv[1].calls[k + 1])

\* The deleteMessage calls of invocation i, by their place in its log.
Deletions(i) == {k \in 1..Len(inv[i].calls) : IsDeletion(inv[i].calls[k])}

\* The call targets the message it was made for, a message of a group or
\* supergroup not sent by a bot, which the invocation classified
\* cross-channel and external in that handling.
TargetsOffender(i, call) ==
    LET m == MessageOfCall(i, call) IN
    /\ Classifiable(m)
    /\ call.chat_id = m.chat.id
    /\ call.message_id = m.message_id
    /\ \E k \in 1..Len(inv[i].results) :
          /\ inv[i].results[k].msg = m
          /\ inv[i].results[k].isEdited = call.isEdited
          /\ CrossAndExternal(inv[i].results[k].result)

\* A deferred deletion appears only for a warning whose send has just
\* returned its identifier, and for the chat the warning was sent to.
TargetsOwnWarning ==
    \A task \in tasks' \ tasks :
        \/ /\ task.pc = "waiting"
           /\ \E i \in Invocations :
                 /\ WarningEnded(i, "id")
                 /\ IsWarning(LastOf(inv[i].calls))
                 /\ LastOf(inv[i].calls).chat_id = task.chat_id
                 /\ task.message_id # 0
        \/ /\ task.pc = "deleting"
           /\ [task EXCEPT !.pc = "waiting"] \in tasks \ tasks'

\* The deleteMessage of a warning is issued once: the deferred deletion
\* that issued it never waits again, and goes when the call ends.
WarningDeletedOnce ==
    \A task \in tasks :
        task.pc = "deleting" =>
            \A other \in tasks' :
                (other.chat_id = task.chat_id
                   /\ other.message_id = task.message_id) => other = task

\* C25 as stated: no message is the target of two deleteMessage calls.
C25_OneDeletionPerMessage ==
    \A i \in Invocations :
        \A j, k \in Deletions(i) :
            (inv[i].calls[j].chat_id = inv[i].calls[k].chat_id
               /\ inv[i].calls[j].message_id = inv[i].calls[k].message_id)
                => j = k

\* C25, amended: every deleteMessage call targets either a message of a
\* group or supergroup, not sent by a bot, that was classified
\* cross-channel and external in the handling the call belongs to, or a
\* warning the program itself sent to that chat; each handling of a
\* message issues at most one deleteMessage call, and each warning is the
\* target of at most one.
C25_DeletionTargets ==
    /\ [](\A i \in Invocations :
            \A k \in Deletions(i) :
                /\ TargetsOffender(i, inv[i].calls[k])
                /\ \A j \in Deletions(i) :
                      inv[i].calls[j].isEdited = inv[i].calls[k].isEdited
                          => j = k)
    /\ [][TargetsOwnWarning /\ WarningDeletedOnce]_vars

\* An update whose message and edited message are the same blocked
\* message has been handled: the message was the target of a deleteMessage
\* call in each handling, and the deleteMessage of a warning is in flight.
C25_Witness ==
    /\ inv[1].pc = "done"
    /\ inv[1].update.message = inv[1].update.edited_message
    /\ Cardinality(Deletions(1)) = 2
    /\ \A k \in Deletions(1) : inv[1].calls[k].message_id = 12
    /\ \E task \in tasks : task.pc = "deleting" /\ task.chat_id = GroupA

(***************************************************************************)
(* Claims about the rate limiter                                           *)
(***************************************************************************)

\* C18: a request made while the credential is missing is answered with
\* 500 on every route and handed to no handler (so no remote call is
\* made for it), and its step leaves the rate-limit table, the count of
\* passed requests, the metadata cache and the invocations unchanged.
C18_MissingCredential ==
    [][(~botToken /\ rlLast' # rlLast) =>
           /\ rlLast'.response = Response(500, "", "none")
           /\ rateLimitTracker' = rateLimitTracker
           /\ accepted' = accepted
           /\ UNCHANGED hookVars]_vars

\* A /health request has been answered 500 while the table holds the
\* timestamps of requests that passed before the credential went missing.
C18_Witness ==
    /\ ~botToken
    /\ rlLast.route = "GET /health" /\ rlLast.response.status = 500
    /\ rlLast.before > 0
    /\ rlLast.ip \in DOMAIN rateLimitTracker

Requested == rlLast.ip # ""

\* The last request came with the credential set: 500 is the answer to
\* the requests that came without it, and to no other.
Configured == rlLast.response.status # 500

\* C6: a request of an address of which MAX_REQUESTS_PER_WINDOW requests
\* have passed within the trailing window is answered 429 with a
\* Retry-After header, on every route; so at most that many requests of
\* one address pass within any trailing window.
C6_LimitPerWindow ==
    /\ (Requested /\ Configured /\ rlLast.before >= MAX_REQUESTS_PER_WINDOW)
          => /\ rlLast.response.status = 429
             /\ rlLast.response.retryAfter # ""
             /\ rlLast.response.handler = "none"
    /\ \A ip \in Addresses : Len(accepted[ip]) <= MAX_REQUESTS_PER_WINDOW

C6_Witness ==
    /\ Requested /\ rlLast.route = "POST /webhook"
    /\ rlLast.before = MAX_REQUESTS_PER_WINDOW
    /\ rlLast.response.status = 429
    /\ rlLast.at > 0

\* C7: a request that comes once a full window has passed since the
\* earliest timestamp counted for its address is admitted, however many
\* requests of the address were rejected in between.
C7_AdmittedAfterWindow ==
    (Requested /\ Configured /\ rlLast.earliest >= 0
       /\ rlLast.at - rlLast.earliest >= RATE_LIMIT_WINDOW)
        => rlLast.response.status # 429

\* The limit was reached at time 0, requests were rejected since, and the
\* request exactly one window later is admitted.
C7_Witness ==
    /\ Requested /\ Configured /\ rlLast.earliest = 0
    /\ rlLast.afterRejected
    /\ rlLast.at = RATE_LIMIT_WINDOW
    /\ rlLast.response.status # 429
    /\ rlLast.ip \in DOMAIN rateLimitTracker
    /\ Len(rateLimitTracker[rlLast.ip]) = MAX_REQUESTS_PER_WINDOW

\* The table is the one the last request's check left: no request came
\* since without being checked, and the clock has not moved.
JustChecked == Requested /\ Configured /\ rlLast.at = now

\* The list of an address in the table: not empty, at most the limit
\* long, in non-decreasing order.
WellFormed(timestamps) ==
    /\ timestamps # <<>>
    /\ Len(timestamps) <= MAX_REQUESTS_PER_WINDOW
    /\ \A j, k \in 1..Len(timestamps) :
          j <= k => timestamps[j] <= timestamps[k]

\* A step that answers 429 adds no timestamp to the table.
RejectedAddsNothing ==
    rlLast'.response.status = 429 =>
        \A ip \in DOMAIN rateLimitTracker' :
            /\ ip \in DOMAIN rateLimitTracker
            /\ Len(rateLimitTracker'[ip]) <= Len(rateLimitTracker[ip])
            /\ \A k \in 1..Len(rateLimitTracker'[ip]) :
                  \E j \in 1..Len(rateLimitTracker[ip]) :
                      rateLimitTracker[ip][j] = rateLimitTracker'[ip][k]

\* No step removes a timestamp that is within the window: those of every
\* address are kept, in their order, ahead of any timestamp added.
NonStaleKept ==
    \A ip \in DOMAIN rateLimitTracker :
        LET kept == InWindow(rateLimitTracker[ip], now') IN
        kept # <<>> =>
            /\ ip \in DOMAIN rateLimitTracker'
            /\ LET after == InWindow(rateLimitTracker'[ip], now') IN
                 /\ Len(after) >= Len(kept)
                 /\ SubSeq(after, 1, Len(kept)) = kept

\* C26: after every rate-limit check every address in the table has a
\* non-empty list of at most MAX_REQUESTS_PER_WINDOW timestamps, all
\* strictly newer than the time of the check minus the window, in
\* non-decreasing order; a rejected request adds no timestamp; and no
\* check removes a timestamp of any address that is within the window.
C26_TableAfterCheck ==
    /\ [](\A ip \in DOMAIN rateLimitTracker :
            /\ WellFormed(rateLimitTracker[ip])
            /\ JustChecked =>
                  \A k \in 1..Len(rateLimitTracker[ip]) :
                      rateLimitTracker[ip][k] > rlLast.at - RATE_LIMIT_WINDOW)
    /\ [][RejectedAddsNothing /\ NonStaleKept]_vars

\* A request has just been rejected at a time by which timestamps have
\* gone stale; its address has a full list, and the other address is in
\* the table with a timestamp half a window old.
C26_Witness ==
    /\ JustChecked /\ rlLast.response.status = 429
    /\ now >= RATE_LIMIT_WINDOW
    /\ DOMAIN rateLimitTracker = Addresses
    /\ Len(rateLimitTracker[rlLast.ip]) = MAX_REQUESTS_PER_WINDOW
    /\ \E ip \in Addresses \ {rlLast.ip} :
          \E k \in 1..Len(rateLimitTracker[ip]) :
              rateLimitTracker[ip][k] = now - 30000

(***************************************************************************)
(* Claims about the API client                                             *)
(***************************************************************************)

\* The call has returned or raised, or is waiting to retry: the last attempt
\* has been dealt with.
AttemptHandled == apiPc \in {"backoff", "done", "raised"}

\* C8: makeApiRequest never raises to its caller: whatever the remote call
\* comes to, at every attempt, the call ends by returning the result payload
\* (only after a successful envelope) or null.
C8_NeverRaises ==
    /\ apiPc # "raised"
    /\ apiPc = "done" =>
          /\ apiRet \in {Payload, NULL}
          /\ apiRet = Payload <=>
                (apiLast.transport = "response" /\ apiLast.httpOk
                   /\ apiLast.body = "ok")

C8_Witness ==
    /\ apiPc = "done" /\ apiRet = NULL
    /\ apiRetry = MAX_RETRIES /\ apiLast.transport = "network"

\* A logical failure of the remote API with an error code outside the
\* retryable set.
NonRetryableFailure(o) ==
    o.transport = "response" /\ o.body = "error" /\ ~isRetryableError(o.error_code)

\* C9: a call sends at most 1 + MAX_RETRIES requests, an attempt is retried
\* only after a transient failure (anything but a logical failure with a
\* non-retryable code), and a failure of the last allowed attempt returns
\* null.
C9_BoundedRetriesOfTransientFailures ==
    /\ apiSent <= MAX_RETRIES + 1
    /\ apiPc = "backoff" => ~NonRetryableFailure(apiLast)
    /\ (AttemptHandled /\ apiRetry = MAX_RETRIES /\ apiLast.body # "ok")
          => (apiPc = "done" /\ apiRet = NULL)

\* C10: once the remote API has answered an attempt with a logical failure
\* whose error code is not retryable, whatever the HTTP status, the call has
\* returned null: no backoff follows, and a first attempt was the only
\* request.
C10_NonRetryableReturnsNullAtOnce ==
    (AttemptHandled /\ NonRetryableFailure(apiLast)) =>
        /\ apiPc = "done" /\ apiRet = NULL
        /\ apiSent = apiRetry + 1

(***************************************************************************)
(* Claims about the classifier                                             *)
(***************************************************************************)

Classified == cResult # NoResult

ExternalReplyToChannel(m) ==
    m.external_reply.kind = "chat" /\ m.external_reply.type = "channel"

\* C1: a message with an external-reply reference to a chat of type channel
\* is classified cross-channel, and not external exactly when chat metadata
\* is available and its linked-channel id is that channel's id.
C1_ExternalReplyClassification ==
    (Classified /\ ExternalReplyToChannel(cMsg)) =>
        /\ cResult.isCrossChannel
        /\ cResult.isExternal =
              ~(cInfo # NULL /\ cInfo.linked_chat_id = cMsg.external_reply.id)

C1_Witness ==
    /\ Classified /\ ExternalReplyToChannel(cMsg)
    /\ cInfo # NULL /\ cInfo.linked_chat_id = cMsg.external_reply.id
    /\ ~cResult.isExternal

\* The reference classifier of the specification: rules 1 to 6 in priority
\* order, the first match decides.  RefExternal is the linked/external test.
RefExternal(info, id) ==
    info = NULL \/ info.linked_chat_id = 0 \/ info.linked_chat_id # id

RefRule(m) ==
    LET r == m.reply_to_message
        replied == r.kind = "message"
        isChannel(c) == c.kind = "chat" /\ c.type = "channel"
    IN  IF ExternalReplyToChannel(m) THEN 1
        ELSE IF replied /\ isChannel(r.forward_from_chat) THEN 2
        ELSE IF replied /\ isChannel(r.sender_chat) THEN 3
        ELSE IF replied /\ (r.forward_sender_name \/ r.forward_date)
                        /\ r.forward_from_chat.kind = "absent" THEN 4
        ELSE IF replied /\ r.forward_signature
                        /\ r.forward_from_chat.kind = "absent" THEN 5
        ELSE 6

RefClassify(m, info) ==
    LET rule == RefRule(m)
        r == m.reply_to_message
    IN  CASE rule = 1 -> <<1, TRUE, RefExternal(info, m.external_reply.id)>>
          [] rule = 2 -> <<2, TRUE, RefExternal(info, r.forward_from_chat.id)>>
          [] rule = 3 -> <<3, TRUE, RefExternal(info, r.sender_chat.id)>>
          [] rule = 4 -> <<4, TRUE, TRUE>>
          [] rule = 5 -> <<5, TRUE, TRUE>>
          [] OTHER -> <<6, FALSE, FALSE>>

RuleOf(result) ==
    CASE result.replyType = "external_reply" -> 1
      [] result.replyType = "forward_from_channel" -> 2
      [] result.replyType = "sender_chat_channel" -> 3
      [] result.replyType = "hidden_forward" -> 4
      [] result.replyType = "channel_signature" -> 5
      [] OTHER -> 6

\* C3: detectCrossChannelReply equals the reference classifier (the first
\* matching rule of rules 1 to 6 decides) on every combination of the
\* message attributes, and a message with no reply and no external-reply
\* reference is never cross-channel.
C3_EqualsReferenceClassifier ==
    Classified =>
        /\ <<RuleOf(cResult), cResult.isCrossChannel, cResult.isExternal>>
              = RefClassify(cMsg, cInfo)
        /\ (cMsg.reply_to_message = Absent /\ cMsg.external_reply = Absent)
              => ~cResult.isCrossChannel

=============================================================================
